---------------------------- MODULE Spec2Model ----------------------------
(***************************************************************************)
(* RemindMe bot (src/bot.py): the daily task / reminder state engine.      *)
(*                                                                         *)
(* State: the SQLite database behind the global `conn` (tables users,      *)
(* tasks, notes and the AUTOINCREMENT counter of tasks), the wall clock,   *)
(* the two scheduled jobs (job_6pm, job_1150) with their position in the   *)
(* loop over the due users, and the callback handlers (on_button) that     *)
(* are suspended at their first await.                                     *)
(*                                                                         *)
(* A coroutine runs without interruption between two awaits, so every      *)
(* action below is one await-free block of a handler or job.               *)
(***************************************************************************)
EXTENDS Integers, Sequences, FiniteSets, Bags, TLC

(***************************************************************************)
(* Bounds of the model.                                                    *)
(***************************************************************************)
NumUsers == 2        \* user ids 1..NumUsers
MaxDay == 2          \* the clock runs over days 0..MaxDay-1
MaxTasks == 2        \* at most MaxTasks rows are ever inserted into tasks
MaxPending == 2      \* callback handlers suspended at `await query.answer()`
MaxTotal == 12       \* feedback_text is applied to 0 <= done <= total <= MaxTotal
MaxBotDay == 1       \* BotSpec: the clock runs over days 0..MaxBotDay-1
MaxBotTasks == 1     \* BotSpec: at most MaxBotTasks rows are ever inserted into tasks

(***************************************************************************)
(* The clock.  One day has SlotsPerDay instants of interest: slot 0 is the *)
(* day before 18:00, slot 1 is 18:00 (REMINDER_6PM) up to 23:50, slot 2 is *)
(* 23:50 (REMINDER_1150) up to midnight.                                   *)
(***************************************************************************)
SlotsPerDay == 3
LastInstant == MaxDay * SlotsPerDay - 1

\* today_str(): the calendar date of an instant (days compare like ISO strings)
today_str(t) == t \div SlotsPerDay
time_of_day(t) == t % SlotsPerDay

Kinds == {"6pm", "1150"}
\* REMINDER_6PM / REMINDER_1150: the slot at which run_daily fires each job
ReminderSlot(which) == IF which = "6pm" THEN 1 ELSE 2

Users == 1 .. NumUsers
Chats == {1, 2}                \* chat ids (update.effective_chat.id)
PrivateChat(u) == u            \* the id of a user's private chat is the user's id
Days == 0 .. (MaxDay - 1)
NULL == -1                     \* SQL NULL in a nullable date column

(***************************************************************************)
(* Tokens of context.args (PTB splits the message text on whitespace, so a  *)
(* token is non-empty and holds no blank).  A token is numeric (int()       *)
(* parses it) or not.                                                      *)
(***************************************************************************)
Num(n) == [isnum |-> TRUE, v |-> n]
NotANumber == [isnum |-> FALSE, v |-> 0]
\* " ".join(context.args).strip(): the joined text is the token list itself;
\* it is empty exactly when there is no token
JoinStrip(args) == args

(***************************************************************************)
(* The database: conn = [users, tasks, seq, notes].                        *)
(*   users : user_id -> [chat_id, last_6pm_date, last_1150_date]           *)
(*   tasks : task_id -> [user_id, date, text, done]                        *)
(*   seq   : the AUTOINCREMENT counter of tasks (sqlite_sequence)          *)
(*   notes : <<user_id, date>> -> note                                     *)
(* Every helper takes the database and returns the new database (a write)  *)
(* or the rows it selects (a read).                                        *)
(***************************************************************************)
EmptyDB == [users |-> <<>>, tasks |-> <<>>, seq |-> 0, notes |-> <<>>]

\* f without the keys in S
Without(f, S) == [x \in (DOMAIN f) \ S |-> f[x]]

\* the ids of a set in ascending order (ORDER BY task_id ASC)
RECURSIVE Ascending(_)
Ascending(S) ==
  IF S = {} THEN <<>>
  ELSE LET m == CHOOSE x \in S : \A y \in S : x <= y
       IN <<m>> \o Ascending(S \ {m})

upsert_user(db, user_id, chat_id) ==
  IF user_id \in DOMAIN db.users
  THEN [db EXCEPT !.users[user_id].chat_id = chat_id]
  ELSE [db EXCEPT !.users = db.users @@ (user_id :>
          [chat_id |-> chat_id, last_6pm_date |-> NULL, last_1150_date |-> NULL])]

\* a mutant of list_tasks: the rows of every user (no user_id=? in the WHERE)
list_tasks_every_user(db, user_id, date_str) ==
  LET asc == Ascending({t \in DOMAIN db.tasks : db.tasks[t].date = date_str})
  IN [i \in 1 .. Len(asc) |->
        [task_id |-> asc[i], text |-> db.tasks[asc[i]].text, done |-> db.tasks[asc[i]].done]]

\* a mutant of list_tasks: the rows of every day (no date=? in the WHERE)
list_tasks_any_day(db, user_id, date_str) ==
  LET asc == Ascending({t \in DOMAIN db.tasks : db.tasks[t].user_id = user_id})
  IN [i \in 1 .. Len(asc) |->
        [task_id |-> asc[i], text |-> db.tasks[asc[i]].text, done |-> db.tasks[asc[i]].done]]

list_tasks(db, user_id, date_str) ==
  LET ids == {t \in DOMAIN db.tasks :
                db.tasks[t].user_id = user_id /\ db.tasks[t].date = date_str}
      asc == Ascending(ids)
  IN [i \in 1 .. Len(asc) |->
        [task_id |-> asc[i], text |-> db.tasks[asc[i]].text, done |-> db.tasks[asc[i]].done]]

\* a mutant of add_task: task_id without AUTOINCREMENT, one more than the
\* largest task_id in the table
add_task_after_largest(db, user_id, date_str, text) ==
  LET largest == IF DOMAIN db.tasks = {} THEN 0
                 ELSE CHOOSE x \in DOMAIN db.tasks : \A y \in DOMAIN db.tasks : y <= x
  IN [db EXCEPT !.seq = db.seq + 1,
                !.tasks = db.tasks @@ ((largest + 1) :>
                   [user_id |-> user_id, date |-> date_str, text |-> text, done |-> 0])]

add_task(db, user_id, date_str, text) ==
  [db EXCEPT !.seq = db.seq + 1,
             !.tasks = db.tasks @@ ((db.seq + 1) :>
                [user_id |-> user_id, date |-> date_str, text |-> text, done |-> 0])]

delete_task(db, task_id) ==
  [db EXCEPT !.tasks = Without(db.tasks, {task_id})]

\* the rows DELETE ... WHERE user_id=? AND date=? removes
RowsForDay(db, user_id, date_str) ==
  {t \in DOMAIN db.tasks : db.tasks[t].user_id = user_id /\ db.tasks[t].date = date_str}

\* returns [db, rowcount]
delete_all_tasks_for_day(db, user_id, date_str) ==
  [db |-> [db EXCEPT !.tasks = Without(db.tasks, RowsForDay(db, user_id, date_str))],
   rowcount |-> Cardinality(RowsForDay(db, user_id, date_str))]

\* a mutant of toggle_task: sets done instead of flipping it
toggle_task_set(db, task_id) ==
  IF task_id \in DOMAIN db.tasks
  THEN [db EXCEPT !.tasks[task_id].done = 1]
  ELSE db

toggle_task(db, task_id) ==
  IF task_id \in DOMAIN db.tasks
  THEN [db EXCEPT !.tasks[task_id].done = IF @ = 1 THEN 0 ELSE 1]
  ELSE db

\* a mutant of task_belongs_to_user_today: the owner is not compared
task_belongs_any_owner(db, user_id, task_id, date_str) ==
  /\ task_id \in DOMAIN db.tasks
  /\ db.tasks[task_id].date = date_str

task_belongs_to_user_today(db, user_id, task_id, date_str) ==
  /\ task_id \in DOMAIN db.tasks
  /\ db.tasks[task_id].user_id = user_id
  /\ db.tasks[task_id].date = date_str

Marker(row, which) ==
  IF which = "6pm" THEN row.last_6pm_date ELSE row.last_1150_date

\* a mutant of set_last_sent: the UPDATE has no WHERE user_id=?
set_last_sent_every_row(db, user_id, which, date_str) ==
  [db EXCEPT !.users = [u \in DOMAIN db.users |->
     IF which = "6pm" THEN [db.users[u] EXCEPT !.last_6pm_date = date_str]
     ELSE [db.users[u] EXCEPT !.last_1150_date = date_str]]]

set_last_sent(db, user_id, which, date_str) ==
  IF user_id \notin DOMAIN db.users THEN db
  ELSE IF which = "6pm" THEN [db EXCEPT !.users[user_id].last_6pm_date = date_str]
  ELSE IF which = "1150" THEN [db EXCEPT !.users[user_id].last_1150_date = date_str]
  ELSE db

\* a mutant of IsDue: the IS NULL alternative is missing (NULL <> ? is not true)
IsDueNoNull(row, which, date_str) ==
  Marker(row, which) # NULL /\ Marker(row, which) # date_str

\* WHERE last_<which>_date IS NULL OR last_<which>_date <> ?
IsDue(row, which, date_str) ==
  Marker(row, which) = NULL \/ Marker(row, which) # date_str

\* the rows (user_id, chat_id) in the order of the primary key
due_users(db, which, date_str) ==
  LET asc == Ascending({u \in DOMAIN db.users : IsDue(db.users[u], which, date_str)})
  IN [i \in 1 .. Len(asc) |-> [user_id |-> asc[i], chat_id |-> db.users[asc[i]].chat_id]]

set_note(db, user_id, date_str, note) ==
  IF <<user_id, date_str>> \in DOMAIN db.notes
  THEN [db EXCEPT !.notes[<<user_id, date_str>>] = note]
  ELSE [db EXCEPT !.notes = db.notes @@ (<<user_id, date_str>> :> note)]

NoNote == <<>>       \* get_note's None (a stored note is a non-empty text)

get_note(db, user_id, date_str) ==
  IF <<user_id, date_str>> \in DOMAIN db.notes
  THEN db.notes[<<user_id, date_str>>] ELSE NoNote

\* a mutant of delete_note: the DELETE removes no row
delete_note_skipped(db, user_id, date_str) == db

delete_note(db, user_id, date_str) ==
  [db EXCEPT !.notes = Without(db.notes, {<<user_id, date_str>>})]

(***************************************************************************)
(* feedback_text.  `ratio = done / total` is a correctly rounded IEEE      *)
(* double and 0.7 is the double 6305039478318694 / 2^53, an even           *)
(* significand, so `ratio >= 0.7` holds exactly when the quotient is at     *)
(* least 0.7 minus half a unit in the last place:                          *)
(*     done * 2^54 >= total * 12610078956637387,                           *)
(* that is, (7*total - 10*done) * 2^53 <= 9 * total.                       *)
(***************************************************************************)
DoubleSignificandBits == 53

RECURSIVE ShiftRight(_, _)
ShiftRight(x, n) == IF n = 0 \/ x = 0 THEN x ELSE ShiftRight(x \div 2, n - 1)

\* a mutant of RatioAtLeast07: the comparison is strict (ratio > 0.7)
RatioAbove07(done, total) == 7 * total - 10 * done < 0

\* ratio = done / total; ratio >= 0.7
RatioAtLeast07(done, total) ==
  7 * total - 10 * done <= ShiftRight(9 * total, DoubleSignificandBits)

\* ratio > 0: a quotient of positive integers does not round to zero
RatioPositive(done, total) == done > 0

MsgNoTasks == "No tasks were set today. Tomorrow, start with 1-2 small tasks"
MsgComplete == "Amazing! You completed everything. Keep it up"
MsgNearComplete == "Great job! You were very close - tomorrow you'll crush it"
MsgPartialEffort == "Good effort. Try smaller tasks to build momentum"
MsgEncouragement == "It's okay. Tomorrow: start with one tiny task first, then build from there."

feedback_text(done, total) ==
  IF total = 0 THEN MsgNoTasks
  ELSE IF done = total THEN MsgComplete
  ELSE IF RatioAtLeast07(done, total) THEN MsgNearComplete
  ELSE IF RatioPositive(done, total) THEN MsgPartialEffort
  ELSE MsgEncouragement

\* a mutant of CountDone: the rows are counted whatever their done
CountDoneEveryRow(rows) == Len(rows)

\* sum(1 for t in tasks if t["done"] == 1)
CountDone(rows) == Cardinality({i \in 1 .. Len(rows) : rows[i].done = 1})

\* build_checkin_text: the date and the Done: done/total header
build_checkin_text(rows, date_str) ==
  [date |-> date_str, done |-> CountDone(rows), total |-> Len(rows)]

\* build_checkin_keyboard: one button t:<task_id> per task with its mark, then
\* the Finalize and Summary buttons
build_checkin_keyboard(rows) ==
  [i \in 1 .. Len(rows) |->
     [mark |-> rows[i].done = 1, text |-> rows[i].text,
      callback_data |-> [kind |-> "t", id |-> rows[i].task_id]]]
  \o << [mark |-> FALSE, text |-> <<"Finalize">>, callback_data |-> [kind |-> "finalize", id |-> 0]],
         [mark |-> FALSE, text |-> <<"Summary">>, callback_data |-> [kind |-> "summary", id |-> 0]] >>

\* the lines "<task_id>. <mark> <text>" of /today and of the 6 PM reminder
TaskLines(rows) ==
  [i \in 1 .. Len(rows) |->
     [task_id |-> rows[i].task_id, mark |-> rows[i].done # 0, text |-> rows[i].text]]

(***************************************************************************)
(* A message to a chat or an answer to a callback query:                   *)
(* [kind, body], the body a tuple of what the text is built from.          *)
(***************************************************************************)
Message(kind, body) == [kind |-> kind, body |-> body]

\* what send_6pm_reminder passes to send_message
reminder_6pm_content(db, user_id, date_str) ==
  LET rows == list_tasks(db, user_id, date_str)
  IN IF rows = <<>>
     THEN Message("6pm: no tasks", <<date_str>>)
     ELSE Message("6pm: tasks", <<date_str, TaskLines(rows)>>)

\* what send_1150_checkin passes to send_message
checkin_1150_content(db, user_id, date_str) ==
  LET rows == list_tasks(db, user_id, date_str)
  IN IF rows = <<>>
     THEN Message("1150: no tasks", <<date_str>>)
     ELSE Message("1150: check-in",
                  <<build_checkin_text(rows, date_str), build_checkin_keyboard(rows)>>)

ReminderContent(which, db, user_id, date_str) ==
  IF which = "6pm" THEN reminder_6pm_content(db, user_id, date_str)
  ELSE checkin_1150_content(db, user_id, date_str)

(***************************************************************************)
(* The handlers, each as the result of its await-free block on database    *)
(* db at instant t: [db |-> the database after it, reply |-> what it then   *)
(* sends].  The commands do all their reads and writes before their first  *)
(* await (the reply); on_button does them after `await query.answer()`.    *)
(***************************************************************************)
Result(db, reply) == [db |-> db, reply |-> reply]

start_command(db, user_id, chat_id) ==
  Result(upsert_user(db, user_id, chat_id), Message("how it works", <<>>))

help_command(db) == Result(db, Message("help", <<>>))

\* a mutant of add_command: the text is checked after the row is inserted
add_command_checks_late(db, t, user_id, chat_id, args) ==
  LET db1 == add_task(upsert_user(db, user_id, chat_id), user_id, today_str(t), JoinStrip(args))
  IN IF JoinStrip(args) = <<>>
     THEN Result(db1, Message("usage: /add <task>", <<>>))
     ELSE Result(db1, Message("added", <<today_str(t), JoinStrip(args)>>))

add_command(db, t, user_id, chat_id, args) ==
  LET db1 == upsert_user(db, user_id, chat_id)
      text == JoinStrip(args)
      d == today_str(t)
  IN IF text = <<>>
     THEN Result(db1, Message("usage: /add <task>", <<>>))
     ELSE Result(add_task(db1, user_id, d, text), Message("added", <<d, text>>))

today_command(db, t, user_id) ==
  LET d == today_str(t)
      rows == list_tasks(db, user_id, d)
  IN IF rows = <<>>
     THEN Result(db, Message("today: no tasks", <<d>>))
     ELSE Result(db, Message("today: tasks", <<d, TaskLines(rows), get_note(db, user_id, d)>>))

del_command(db, t, user_id, chat_id, args) ==
  LET db1 == upsert_user(db, user_id, chat_id)
      d == today_str(t)
  IN IF args = <<>>
     THEN Result(db1, Message("usage: /del <task_id>", <<>>))
     ELSE IF ~args[1].isnum
     THEN Result(db1, Message("usage: /del <task_id> (must be a number)", <<>>))
     ELSE IF ~task_belongs_to_user_today(db1, user_id, args[1].v, d)
     THEN Result(db1, Message("that task id is not in today's list", <<>>))
     ELSE Result(delete_task(db1, args[1].v), Message("deleted", <<args[1].v>>))

reset_command(db, t, user_id, chat_id) ==
  LET db1 == upsert_user(db, user_id, chat_id)
      d == today_str(t)
      del == delete_all_tasks_for_day(db1, user_id, d)
  IN Result(delete_note(del.db, user_id, d), Message("reset complete", <<d, del.rowcount>>))

note_command(db, t, user_id, chat_id, args) ==
  LET db1 == upsert_user(db, user_id, chat_id)
      note == JoinStrip(args)
      d == today_str(t)
  IN IF note = <<>>
     THEN Result(db1, Message("usage: /note <text>", <<>>))
     ELSE Result(set_note(db1, user_id, d, note), Message("saved note", <<d>>))

\* a mutant of checkin_command: the manual check-in is marked like the scheduled one
checkin_command_marks(db, t, user_id, chat_id) ==
  LET db1 == set_last_sent(upsert_user(db, user_id, chat_id), user_id, "1150", today_str(t))
  IN Result(db1, checkin_1150_content(db1, user_id, today_str(t)))

checkin_command(db, t, user_id, chat_id) ==
  LET db1 == upsert_user(db, user_id, chat_id)
  IN Result(db1, checkin_1150_content(db1, user_id, today_str(t)))

\* callback data: [kind |-> "t", id |-> n] is "t:<n>"; "summary"; "finalize"
ToggleData(n) == [kind |-> "t", id |-> n]
SummaryData == [kind |-> "summary", id |-> 0]
FinalizeData == [kind |-> "finalize", id |-> 0]

\* a mutant of on_button: Finalize closes the day (the rows of the day are removed)
on_button_finalize_closes(db, t, user_id, data) ==
  LET d == today_str(t)
  IN IF data.kind = "t"
     THEN IF ~task_belongs_to_user_today(db, user_id, data.id, d)
          THEN Result(db, Message("Not allowed.", <<>>))
          ELSE LET db1 == toggle_task(db, data.id)
                   rows == list_tasks(db1, user_id, d)
               IN Result(db1, Message("check-in edited",
                           <<build_checkin_text(rows, d), build_checkin_keyboard(rows)>>))
     ELSE IF data.kind = "summary"
     THEN LET rows == list_tasks(db, user_id, d)
          IN Result(db, Message("summary", <<CountDone(rows), Len(rows)>>))
     ELSE IF data.kind = "finalize"
     THEN LET rows == list_tasks(db, user_id, d)
              total == Len(rows)
              done == CountDone(rows)
          IN Result(delete_all_tasks_for_day(db, user_id, d).db,
                    Message("final result",
                      <<d, done, total, feedback_text(done, total), get_note(db, user_id, d)>>))
     ELSE Result(db, Message("", <<>>))

on_button(db, t, user_id, data) ==
  LET d == today_str(t)
  IN IF data.kind = "t"
     THEN IF ~task_belongs_to_user_today(db, user_id, data.id, d)
          THEN Result(db, Message("Not allowed.", <<>>))
          ELSE LET db1 == toggle_task(db, data.id)
                   rows == list_tasks(db1, user_id, d)
               IN Result(db1, Message("check-in edited",
                           <<build_checkin_text(rows, d), build_checkin_keyboard(rows)>>))
     ELSE IF data.kind = "summary"
     THEN LET rows == list_tasks(db, user_id, d)
          IN Result(db, Message("summary", <<CountDone(rows), Len(rows)>>))
     ELSE IF data.kind = "finalize"
     THEN LET rows == list_tasks(db, user_id, d)
              total == Len(rows)
              done == CountDone(rows)
          IN Result(db, Message("final result",
                      <<d, done, total, feedback_text(done, total), get_note(db, user_id, d)>>))
     ELSE Result(db, Message("", <<>>))

(***************************************************************************)
(* State.                                                                  *)
(*   now      the current instant (now_dhaka())                            *)
(*   conn     the database                                                 *)
(*   job      per kind, the scheduled job: where it is in its loop over    *)
(*            the due users, and what that firing has done so far          *)
(*   pending  the bag of on_button handlers suspended at query.answer()    *)
(* Observations, which no handler reads:                                   *)
(*   log      the outcome of every dispatch the scheduler made             *)
(*   reply    the last handler that ran and what it answered               *)
(*   toggles  per task, the toggle taps received and accepted              *)
(*   probe    one earlier Finalize answer, kept for comparison             *)
(*   fbDone, fbTotal, fbOut   an application of feedback_text              *)
(***************************************************************************)
VARIABLES now, conn, job, pending, log, reply, toggles, probe, fbDone, fbTotal, fbOut

vars == <<now, conn, job, pending, log, reply, toggles, probe, fbDone, fbTotal, fbOut>>

NoMessage == Message("", <<>>)
IdleJob == [pc |-> "idle", d |-> NULL, due |-> <<>>, i |-> 0, msg |-> NoMessage,
            before |-> <<>>, res |-> <<>>]
NoReply == [to |-> 0, op |-> "none", arg |-> 0, msg |-> NoMessage]
NoProbe == [user |-> 0, out |-> NoMessage, changed |-> FALSE, state |-> "none"]
NewToggles == [taps |-> 0, acc |-> 0, before |-> NULL, conc |-> FALSE]

Init ==
  /\ now = 0
  /\ conn = EmptyDB
  /\ job = [k \in Kinds |-> IdleJob]
  /\ pending = EmptyBag
  /\ log = [ok |-> {}, fail |-> {}]
  /\ reply = NoReply
  /\ toggles = <<>>
  /\ probe = NoProbe
  /\ fbDone = 0 /\ fbTotal = 0 /\ fbOut = ""

(***************************************************************************)
(* The clock advances.                                                     *)
(***************************************************************************)
Tick ==
  /\ now < LastInstant
  /\ now' = now + 1
  /\ probe' = IF probe.state = "open" /\ today_str(now + 1) # today_str(now)
              THEN [probe EXCEPT !.changed = TRUE] ELSE probe
  /\ UNCHANGED <<conn, job, pending, log, reply, toggles, fbDone, fbTotal, fbOut>>

\* the clock is next looked at after midnight
Midnight ==
  /\ today_str(now) + 1 < MaxDay
  /\ now' = (today_str(now) + 1) * SlotsPerDay
  /\ probe' = IF probe.state = "open" THEN [probe EXCEPT !.changed = TRUE] ELSE probe
  /\ UNCHANGED <<conn, job, pending, log, reply, toggles, fbDone, fbTotal, fbOut>>

(***************************************************************************)
(* The scheduled jobs job_6pm and job_1150.  run_daily starts job `which`  *)
(* once a day, at its time.  The job reads the day and the due users, and  *)
(* for each due user awaits the send (the content is read just before the  *)
(* await); set_last_sent runs when the await returns, and an exception of  *)
(* the send is swallowed.                                                  *)
(***************************************************************************)
\* the job at the await of the send to due[i], or finished after the last user
JobAt(which, db, j, i) ==
  IF i <= Len(j.due)
  THEN [j EXCEPT !.pc = "sending", !.i = i,
                 !.msg = ReminderContent(which, db, j.due[i].user_id, j.d)]
  ELSE [j EXCEPT !.pc = "done", !.i = i, !.msg = NoMessage]

\* a mutant of JobNext: the loop ends at the first exception
JobNextAbort(which, db, j, ok) ==
  IF ok THEN JobAt(which, db, j, j.i + 1) ELSE JobAt(which, db, j, Len(j.due) + 1)

\* a mutant of JobNext: after an exception the send to the same user is tried again
JobNextRetry(which, db, j, ok) ==
  JobAt(which, db, j, IF ok THEN j.i + 1 ELSE j.i)

\* the loop goes on to the next due user, whether the send raised or not
JobNext(which, db, j, ok) == JobAt(which, db, j, j.i + 1)

\* a mutant of AfterSend: the marker is set whether the send raised or not
AfterSendAlways(db, which, user_id, date_str, ok) ==
  set_last_sent(db, user_id, which, date_str)

\* try: await send...; set_last_sent(...)  except Exception: pass
AfterSend(db, which, user_id, date_str, ok) ==
  IF ok THEN set_last_sent(db, user_id, which, date_str) ELSE db

Fire(which) ==
  /\ time_of_day(now) = ReminderSlot(which)
  /\ job[which].pc # "sending"
  /\ job[which].d # today_str(now)
  /\ LET d == today_str(now)
         due == due_users(conn, which, d)
         j == [IdleJob EXCEPT !.d = d, !.due = due,
                 !.before = [u \in {due[n].user_id : n \in 1 .. Len(due)} |->
                               Marker(conn.users[u], which)]]
     IN job' = [job EXCEPT ![which] = JobAt(which, conn, j, 1)]
  /\ UNCHANGED <<now, conn, pending, log, reply, toggles, probe, fbDone, fbTotal, fbOut>>

\* the awaited send to due[i] returns (ok) or raises (~ok)
SendDone(which, ok) ==
  /\ job[which].pc = "sending"
  /\ LET j == job[which]
         u == j.due[j.i].user_id
         db1 == AfterSend(conn, which, u, j.d, ok)
         j1 == [j EXCEPT !.res = @ @@ (u :> ok)]
     IN /\ conn' = db1
        /\ job' = [job EXCEPT ![which] = JobNext(which, db1, j1, ok)]
        /\ log' = IF ok THEN [log EXCEPT !.ok = @ \cup {<<u, which, j.d>>}]
                        ELSE [log EXCEPT !.fail = @ \cup {<<u, which, j.d>>}]
  /\ UNCHANGED <<now, pending, reply, toggles, probe, fbDone, fbTotal, fbOut>>

SendOk(which) == SendDone(which, TRUE)
SendFail(which) == SendDone(which, FALSE)

(***************************************************************************)
(* Observations of the handlers.                                           *)
(*   reply   : with obs, the handler's user, operation, argument and       *)
(*             answer replace the last one observed.                       *)
(*   toggles : per task row, the parity of the toggle taps of its owner    *)
(*             received while the task was of today (taps), the parity of  *)
(*             the toggles accepted (acc), and done before the last        *)
(*             accepted toggle (before), and whether a tap on it arrived   *)
(*             while another one of its owner was suspended (conc).        *)
(*   probe   : one Finalize answer (recorded with rec), whether the same   *)
(*             user has since used add, del, reset or note or the day has  *)
(*             changed, and how a later Finalize answer of the same user   *)
(*             (again with rec) compared; a toggle by that user in between *)
(*             drops the probe.                                            *)
(***************************************************************************)
Observed(obs, user_id, op, arg, r) ==
  IF obs THEN [to |-> user_id, op |-> op, arg |-> arg, msg |-> r.reply] ELSE reply

\* the rows of toggles follow the rows of tasks
Track(tg, db) ==
  [t \in DOMAIN db.tasks |-> IF t \in DOMAIN tg THEN tg[t] ELSE NewToggles]

Flip(b) == IF b = 1 THEN 0 ELSE 1

\* a toggle tap of user_id on task_id arrives while `waiting` taps like it are suspended
TapReceived(tg, db, t, user_id, data, waiting) ==
  IF /\ data.kind = "t" /\ data.id \in DOMAIN db.tasks
     /\ db.tasks[data.id].user_id = user_id /\ db.tasks[data.id].date = today_str(t)
  THEN [tg EXCEPT ![data.id].taps = Flip(@), ![data.id].conc = @ \/ waiting > 0]
  ELSE tg

\* on_button has run on db with result r
TapHandled(tg, db, data, r) ==
  IF r.reply.kind = "check-in edited"
  THEN [tg EXCEPT ![data.id].acc = Flip(@), ![data.id].before = db.tasks[data.id].done]
  ELSE tg

ProbeAfterCommand(user_id) ==
  IF probe.state = "open" /\ probe.user = user_id
  THEN [probe EXCEPT !.changed = TRUE] ELSE probe

ProbeAfterButton(user_id, r, rec) ==
  IF r.reply.kind = "check-in edited"
  THEN IF probe.state = "open" /\ probe.user = user_id THEN NoProbe ELSE probe
  ELSE IF r.reply.kind = "final result" /\ rec
  THEN IF probe.state = "none"
       THEN [user |-> user_id, out |-> r.reply, changed |-> FALSE, state |-> "open"]
       ELSE IF probe.state = "open" /\ probe.user = user_id
       THEN [probe EXCEPT !.out = NoMessage,
                          !.state = IF r.reply = probe.out THEN "same" ELSE "differ"]
       ELSE probe
  ELSE probe

(***************************************************************************)
(* The command handlers: one await-free block each, then the reply.        *)
(***************************************************************************)
\* the database and the observations after a command with result r
Handled(r) ==
  /\ conn' = r.db
  /\ toggles' = Track(toggles, r.db)
  /\ UNCHANGED <<now, job, pending, log, fbDone, fbTotal, fbOut>>

\* /start
Start(user_id, chat_id, obs) ==
  LET r == start_command(conn, user_id, chat_id)
  IN Handled(r) /\ reply' = Observed(obs, user_id, "start", 0, r) /\ UNCHANGED probe

\* /help
Help(user_id, obs) ==
  LET r == help_command(conn)
  IN Handled(r) /\ reply' = Observed(obs, user_id, "help", 0, r) /\ UNCHANGED probe

\* /add <task>
Add(user_id, chat_id, args, obs) ==
  LET r == add_command(conn, now, user_id, chat_id, args)
  IN /\ r.db.seq <= MaxTasks
     /\ Handled(r)
     /\ reply' = Observed(obs, user_id, "add", 0, r)
     /\ probe' = ProbeAfterCommand(user_id)

\* /today
Today(user_id, obs) ==
  LET r == today_command(conn, now, user_id)
  IN Handled(r) /\ reply' = Observed(obs, user_id, "today", 0, r) /\ UNCHANGED probe

\* /del <id>
Del(user_id, chat_id, args, obs) ==
  LET r == del_command(conn, now, user_id, chat_id, args)
      id == IF args # <<>> /\ args[1].isnum THEN args[1].v ELSE 0
  IN /\ Handled(r)
     /\ reply' = Observed(obs, user_id, "del", id, r)
     /\ probe' = ProbeAfterCommand(user_id)

\* /reset
Reset(user_id, chat_id, obs) ==
  LET r == reset_command(conn, now, user_id, chat_id)
  IN /\ Handled(r)
     /\ reply' = Observed(obs, user_id, "reset", 0, r)
     /\ probe' = ProbeAfterCommand(user_id)

\* /note <text>
Note(user_id, chat_id, args, obs) ==
  LET r == note_command(conn, now, user_id, chat_id, args)
  IN /\ Handled(r)
     /\ reply' = Observed(obs, user_id, "note", 0, r)
     /\ probe' = ProbeAfterCommand(user_id)

\* /checkin
Checkin(user_id, chat_id, obs) ==
  LET r == checkin_command(conn, now, user_id, chat_id)
  IN Handled(r) /\ reply' = Observed(obs, user_id, "checkin", 0, r) /\ UNCHANGED probe

(***************************************************************************)
(* on_button.  The handler first awaits query.answer(); everything it      *)
(* reads and writes is in the block after that await.  TapArrives starts   *)
(* a handler, TapRuns runs the block of a started one, in any order;       *)
(* Button is a handler whose query.answer() returns before any other       *)
(* handler runs (updates handled one at a time).                           *)
(***************************************************************************)
Tap(user_id, data) == [user |-> user_id, data |-> data]

\* a button t:<id> is one of a keyboard built from the rows of tasks (line 226)
TapArrives(user_id, data) ==
  /\ BagCardinality(pending) < MaxPending
  /\ data.kind = "t" => data.id <= conn.seq
  /\ pending' = pending (+) SetToBag({Tap(user_id, data)})
  /\ toggles' = TapReceived(toggles, conn, now, user_id, data,
                            CopiesIn(Tap(user_id, data), pending))
  /\ UNCHANGED <<now, conn, job, log, reply, probe, fbDone, fbTotal, fbOut>>

TapRuns(h) ==
  /\ BagIn(h, pending)
  /\ LET r == on_button(conn, now, h.user, h.data)
     IN /\ conn' = r.db
        /\ toggles' = TapHandled(toggles, conn, h.data, r)
        /\ probe' = ProbeAfterButton(h.user, r, FALSE)
  /\ pending' = pending (-) SetToBag({h})
  /\ UNCHANGED <<now, job, log, reply, fbDone, fbTotal, fbOut>>

Button(user_id, data, obs, rec) ==
  /\ pending = EmptyBag
  /\ LET r == on_button(conn, now, user_id, data)
     IN /\ conn' = r.db
        /\ toggles' = TapHandled(TapReceived(toggles, conn, now, user_id, data, 0), conn, data, r)
        /\ reply' = Observed(obs, user_id, data.kind, data.id, r)
        /\ probe' = ProbeAfterButton(user_id, r, rec)
  /\ UNCHANGED <<now, job, pending, log, fbDone, fbTotal, fbOut>>

(***************************************************************************)
(* Inputs.                                                                 *)
(***************************************************************************)
TaskTexts == {<<>>, <<"Gym">>}
NoteTexts == {<<>>, <<"tired">>}
TaskIds == 1 .. (MaxTasks + 1)           \* MaxTasks + 1 is never a row
DelArgs == {<<>>, <<NotANumber>>} \cup {<<Num(n)>> : n \in TaskIds}
ButtonData == {ToggleData(n) : n \in TaskIds} \cup {SummaryData, FinalizeData}

(***************************************************************************)
(* The scheduler with the registration of users.                           *)
(***************************************************************************)
SchedNext ==
  \/ Tick
  \/ \E u \in Users, c \in Chats : Start(u, c, FALSE)
  \/ \E k \in Kinds : Fire(k)
  \/ \E k \in Kinds : SendOk(k)
  \/ \E k \in Kinds : SendFail(k)

SchedSpec == Init /\ [][SchedNext]_vars

(***************************************************************************)
(* The task store and the check-in engine, updates handled one at a time,  *)
(* every answer observed.  The users write to the bot in their private     *)
(* chats, and the clock is looked at once a day.                           *)
(***************************************************************************)
CheckinNext ==
  \/ Midnight
  \/ \E u \in Users : Start(u, PrivateChat(u), TRUE)
  \/ \E u \in Users, a \in TaskTexts : Add(u, PrivateChat(u), a, TRUE)
  \/ \E u \in Users : Today(u, TRUE)
  \/ \E u \in Users, a \in DelArgs : Del(u, PrivateChat(u), a, TRUE)
  \/ \E u \in Users : Reset(u, PrivateChat(u), TRUE)
  \/ \E u \in Users, a \in NoteTexts : Note(u, PrivateChat(u), a, TRUE)
  \/ \E u \in Users : Checkin(u, PrivateChat(u), TRUE)
  \/ \E u \in Users, b \in ButtonData : Button(u, b, TRUE, FALSE)

CheckinSpec == Init /\ [][CheckinNext]_vars

(***************************************************************************)
(* Toggle taps handled concurrently, with the commands that add and        *)
(* remove tasks.                                                           *)
(***************************************************************************)
TapNext ==
  \/ Midnight
  \/ \E u \in Users, a \in TaskTexts : Add(u, PrivateChat(u), a, FALSE)
  \/ \E u \in Users, a \in DelArgs : Del(u, PrivateChat(u), a, FALSE)
  \/ \E u \in Users, n \in TaskIds : TapArrives(u, ToggleData(n))
  \/ \E h \in BagToSet(pending) : TapRuns(h)

TapSpec == Init /\ [][TapNext]_vars

(***************************************************************************)
(* The check-in engine with one pair of Finalize answers compared.         *)
(***************************************************************************)
FinalizeNext ==
  \/ Midnight
  \/ \E u \in Users, a \in TaskTexts : Add(u, PrivateChat(u), a, FALSE)
  \/ \E u \in Users, a \in DelArgs : Del(u, PrivateChat(u), a, FALSE)
  \/ \E u \in Users : Reset(u, PrivateChat(u), FALSE)
  \/ \E u \in Users, a \in NoteTexts : Note(u, PrivateChat(u), a, FALSE)
  \/ \E u \in Users, b \in ButtonData, rec \in BOOLEAN : Button(u, b, FALSE, rec)

FinalizeSpec == Init /\ [][FinalizeNext]_vars

(***************************************************************************)
(* The scheduler together with the users' operations: registration from    *)
(* any chat, tasks added and reset, the manual check-in (its answer        *)
(* observed) and the buttons.  The sends of the scheduler return; the      *)
(* sends that raise are in SchedSpec.                                      *)
(***************************************************************************)
BotTick == today_str(now + 1) < MaxBotDay /\ Tick

BotAdd(user_id) == conn.seq < MaxBotTasks /\ Add(user_id, PrivateChat(user_id), <<"Gym">>, FALSE)

BotNext ==
  \/ BotTick
  \/ \E u \in Users, c \in Chats : Start(u, c, FALSE)
  \/ \E u \in Users : BotAdd(u)
  \/ \E u \in Users : Reset(u, PrivateChat(u), FALSE)
  \/ \E u \in Users : Checkin(u, PrivateChat(u), TRUE)
  \/ \E u \in Users, b \in ButtonData : Button(u, b, FALSE, FALSE)
  \/ \E k \in Kinds : Fire(k)
  \/ \E k \in Kinds : SendOk(k)

BotSpec == Init /\ [][BotNext]_vars

(***************************************************************************)
(* An application of feedback_text to every pair 0 <= done <= total.       *)
(***************************************************************************)
FeedbackInit ==
  /\ now = 0
  /\ conn = EmptyDB
  /\ job = [k \in Kinds |-> IdleJob]
  /\ pending = EmptyBag
  /\ log = [ok |-> {}, fail |-> {}]
  /\ reply = NoReply
  /\ toggles = <<>>
  /\ probe = NoProbe
  /\ fbTotal \in 0 .. MaxTotal
  /\ fbDone \in 0 .. fbTotal
  /\ fbOut = ""

ApplyFeedback ==
  /\ fbOut = ""
  /\ fbOut' = feedback_text(fbDone, fbTotal)
  /\ UNCHANGED <<now, conn, job, pending, log, reply, toggles, probe, fbDone, fbTotal>>

FeedbackNext == ApplyFeedback

FeedbackSpec == FeedbackInit /\ [][FeedbackNext]_vars

(***************************************************************************)
(* Claims about the scheduler (checked under SchedSpec).                   *)
(***************************************************************************)
DueSet(db, which, date_str) ==
  {due_users(db, which, date_str)[n].user_id : n \in 1 .. Len(due_users(db, which, date_str))}

JobDueSet(j) == {j.due[n].user_id : n \in 1 .. Len(j.due)}

\* a step changes u's marker for kind k
MarkerChanges(u, k) ==
  /\ u \in DOMAIN conn.users
  /\ Marker(conn'.users[u], k) # Marker(conn.users[u], k)

\* C1: in every firing, the marker of user u for kind k is set to the firing's
\* day only when the dispatch to u in that firing has returned successfully; if
\* the dispatch to u failed, u's marker for k is what it was before the firing.
C1_MarkerOnlyAfterSuccess ==
  /\ [](\A k \in Kinds : \A u \in DOMAIN job[k].res :
          Marker(conn.users[u], k) = IF job[k].res[u] THEN job[k].d ELSE job[k].before[u])
  /\ [][\A k \in Kinds, u \in Users :
          MarkerChanges(u, k) =>
            /\ job[k].pc = "sending"
            /\ job[k].due[job[k].i].user_id = u
            /\ u \in DOMAIN job'[k].res /\ job'[k].res[u]
            /\ <<u, k, job[k].d>> \in log'.ok
            /\ Marker(conn'.users[u], k) = job[k].d]_vars

\* a finished firing in which one dispatch failed and another succeeded
C1_Witness ==
  \E k \in Kinds :
    /\ job[k].pc = "done"
    /\ \E u1, u2 \in DOMAIN job[k].res : ~job[k].res[u1] /\ job[k].res[u2]

\* C2: a registered user u is in DueUsers(k, D) exactly when u's marker for k is
\* absent or differs from D; after MarkSent(u, k, D), u is not in DueUsers(k, D)
\* and is in DueUsers(k, D') for every other day D'.
C2_DueIffMarkerDiffers ==
  \A k \in Kinds, D \in Days :
    /\ DueSet(conn, k, D) \subseteq DOMAIN conn.users
    /\ \A u \in DOMAIN conn.users :
         /\ u \in DueSet(conn, k, D) <=>
              (Marker(conn.users[u], k) = NULL \/ Marker(conn.users[u], k) # D)
         /\ u \notin DueSet(set_last_sent(conn, u, k, D), k, D)
         /\ \A D2 \in Days \ {D} : u \in DueSet(set_last_sent(conn, u, k, D), k, D2)

\* the scheduler has marked a user for day 0 while another user was never marked
C2_Witness ==
  \E k \in Kinds, u1, u2 \in DOMAIN conn.users :
    /\ <<u1, k, 0>> \in log.ok /\ Marker(conn.users[u1], k) = 0
    /\ Marker(conn.users[u2], k) = NULL
    /\ today_str(now) = 1

\* C3: a failed dispatch does not end the batch: when a firing is over, every
\* user of the due set read at its start has had a dispatch attempt in it.
C3_FailureDoesNotAbortBatch ==
  \A k \in Kinds :
    /\ DOMAIN job[k].res \subseteq JobDueSet(job[k])
    /\ job[k].pc = "done" => DOMAIN job[k].res = JobDueSet(job[k])

\* a finished firing whose first dispatch failed and whose second was attempted
C3_Witness ==
  \E k \in Kinds :
    /\ job[k].pc = "done" /\ Len(job[k].due) = 2
    /\ ~job[k].res[job[k].due[1].user_id]
    /\ job[k].due[2].user_id \in DOMAIN job[k].res

\* C4: a user whose dispatch of kind k failed at a firing remains due for k, and
\* the next firing of kind k attempts a dispatch to that user again.
C4_FailedUserRetriedNextFiring ==
  \A k \in Kinds :
    /\ \A u \in DOMAIN job[k].res :
         ~job[k].res[u] =>
           \A D \in Days : D >= job[k].d => u \in DueSet(conn, k, D)
    /\ \A f \in log.fail :
         (f[2] = k /\ job[k].d > f[3] /\ job[k].pc = "done") =>
           <<f[1], k, job[k].d>> \in log.ok \cup log.fail

\* the dispatch to a user failed on day 0 and was attempted again on day 1
C4_Witness ==
  \E u \in Users, k \in Kinds :
    /\ <<u, k, 0>> \in log.fail
    /\ <<u, k, 1>> \in log.ok \cup log.fail

\* C5: delivery is at least once per (user, kind, day): the reminder of a day D
\* whose dispatch failed is delivered, with the marker set to D, once the
\* notifier succeeds for the user at a later firing.
C5_AtLeastOncePerDay ==
  \A f \in log.fail :
    (\E D2 \in Days : D2 > f[3] /\ <<f[1], f[2], D2>> \in log.ok) => f \in log.ok

(***************************************************************************)
(* Claims about the task store and the check-in engine.                    *)
(***************************************************************************)
\* the task exists, is of user u and of the current day
OwnTaskOfToday(u, id) ==
  /\ id \in DOMAIN conn.tasks
  /\ conn.tasks[id].user_id = u
  /\ conn.tasks[id].date = today_str(now)

Accepted == {"check-in edited", "deleted"}

\* C6: a toggle (t:<id>) or delete (/del <id>) by user u changes a task only if
\* the task exists, is owned by u and is of the current day, and then changes no
\* other row; otherwise it is rejected and no row changes.  No task belongs to
\* a user other than its owner, for any day.
C6_OnlyOwnTaskOfToday ==
  /\ [](\A t \in DOMAIN conn.tasks, u \in Users, D \in Days :
          u # conn.tasks[t].user_id => ~task_belongs_to_user_today(conn, u, t, D))
  /\ [][reply'.op \in {"t", "del"} =>
          /\ (conn'.tasks # conn.tasks \/ (reply' # reply /\ reply'.msg.kind \in Accepted)) =>
                /\ OwnTaskOfToday(reply'.to, reply'.arg)
                /\ reply'.msg.kind \in Accepted
                /\ \A t \in (DOMAIN conn.tasks) \ {reply'.arg} :
                      t \in DOMAIN conn'.tasks /\ conn'.tasks[t] = conn.tasks[t]
                /\ DOMAIN conn'.tasks \subseteq DOMAIN conn.tasks
          /\ reply'.msg.kind \notin Accepted => conn'.tasks = conn.tasks]_vars

\* a user tapped the button of another user's task of today and was refused
C6_Witness ==
  /\ reply.op = "t" /\ reply.msg.kind = "Not allowed."
  /\ reply.arg \in DOMAIN conn.tasks
  /\ conn.tasks[reply.arg].user_id # reply.to
  /\ conn.tasks[reply.arg].date = today_str(now)

\* C7: no toggle is lost under concurrent taps: a task of today has been flipped
\* once for every tap of its owner that has run, whatever the interleaving, so
\* when the N taps received have all run its done is 0 flipped N times.
C7_NoLostToggle ==
  \A t \in DOMAIN conn.tasks :
    conn.tasks[t].date = today_str(now) =>
      conn.tasks[t].done =
        (toggles[t].taps + CopiesIn(Tap(conn.tasks[t].user_id, ToggleData(t)), pending)) % 2

\* two taps on one task were suspended together and both have run
C7_Witness ==
  \E t \in DOMAIN conn.tasks :
    /\ toggles[t].conc /\ toggles[t].taps = 0 /\ toggles[t].acc = 0
    /\ toggles[t].before = 1
    /\ conn.tasks[t].date = today_str(now)
    /\ ~BagIn(Tap(conn.tasks[t].user_id, ToggleData(t)), pending)
    /\ conn.tasks[t].done = 0

\* C8: two consecutive accepted toggles of a task restore its done: an accepted
\* toggle of a task toggled before sets done to what it was before that toggle.
C8_TogglePairRestores ==
  [][\A t \in DOMAIN toggles :
       (t \in DOMAIN toggles' /\ toggles'[t].acc # toggles[t].acc /\ toggles[t].before # NULL) =>
         conn'.tasks[t].done = toggles[t].before]_vars

\* a task toggled twice by its owner, the second toggle just answered
C8_Witness ==
  /\ reply.op = "t" /\ reply.msg.kind = "check-in edited"
  /\ reply.arg \in DOMAIN toggles
  /\ toggles[reply.arg].before = 1 /\ toggles[reply.arg].acc = 0
  /\ conn.tasks[reply.arg].done = 0

\* the tier the ordered rules give, the 0.7 boundary as 10 * done >= 7 * total
TierByRule(done, total) ==
  IF total = 0 THEN MsgNoTasks
  ELSE IF done = total THEN MsgComplete
  ELSE IF 10 * done >= 7 * total THEN MsgNearComplete
  ELSE IF done > 0 THEN MsgPartialEffort
  ELSE MsgEncouragement

\* C9: for 0 <= done <= total, feedback_text(done, total) is the tier of the
\* ordered rules; (7,10) near-complete, (6,10) partial-effort, (0,5)
\* encouragement, (0,0) no tasks, (3,3) complete.
C9_FeedbackTiers ==
  fbOut # "" =>
    /\ fbOut = TierByRule(fbDone, fbTotal)
    /\ (fbDone = 7 /\ fbTotal = 10) => fbOut = MsgNearComplete
    /\ (fbDone = 6 /\ fbTotal = 10) => fbOut = MsgPartialEffort
    /\ (fbDone = 0 /\ fbTotal = 5) => fbOut = MsgEncouragement
    /\ (fbDone = 0 /\ fbTotal = 0) => fbOut = MsgNoTasks
    /\ (fbDone = 3 /\ fbTotal = 3) => fbOut = MsgComplete

\* feedback_text has answered near-complete at the boundary 7 of 10
C9_Witness == fbDone = 7 /\ fbTotal = 10 /\ fbOut = MsgNearComplete

\* C10 as claimed: two Finalize answers of one user with no toggle between them
\* are identical, whatever else happened between the two calls.
C10_FinalizeIdempotent == probe.state # "differ"

\* C10 as amended: two Finalize answers of one user are identical when between
\* the calls that user made no accepted toggle and sent no /add, /del, /reset or
\* /note, and the day did not change; what other users do does not matter.
C10_FinalizeIdempotentUntouched == probe.state = "differ" => probe.changed

\* a second Finalize answer compared equal to the first, the user having a task
C10_Witness ==
  /\ probe.state = "same" /\ ~probe.changed
  /\ list_tasks(conn, probe.user, today_str(now)) # <<>>

\* C11: reset completeness: after /reset by user u on day D (DeleteAllForDay
\* and the removal of the note, one block), ListTasks(u, D) is the empty
\* sequence and GetNote(u, D) is absent.
C11_ResetCompleteness ==
  reply.op = "reset" =>
    /\ list_tasks(conn, reply.to, reply.msg.body[1]) = <<>>
    /\ RowsForDay(conn, reply.to, reply.msg.body[1]) = {}
    /\ get_note(conn, reply.to, reply.msg.body[1]) = NoNote

\* a reset has removed a task while a task of another user of that day stays
C11_Witness ==
  /\ reply.op = "reset" /\ reply.msg.body[2] = 1
  /\ \E t \in DOMAIN conn.tasks :
       conn.tasks[t].date = reply.msg.body[1] /\ conn.tasks[t].user_id # reply.to

\* the ids of the rows list_tasks returns
ListedIds(u, D) ==
  {list_tasks(conn, u, D)[i].task_id : i \in 1 .. Len(list_tasks(conn, u, D))}

\* C12: day scoping: a task created by user u on day D is in ListTasks(u, D')
\* only for D' = D and never in the list of another user; a task is created
\* with the day of its creation and keeps its day and owner, so after the day
\* rolls over the list of the new day holds no task of an earlier day.
C12_DayScoping ==
  /\ [](\A t \in DOMAIN conn.tasks :
          /\ conn.tasks[t].date <= today_str(now)
          /\ \A u \in Users, D \in Days :
               t \in ListedIds(u, D) <=> (u = conn.tasks[t].user_id /\ D = conn.tasks[t].date))
  /\ [](\A u \in Users, D \in Days : ListedIds(u, D) \subseteq DOMAIN conn.tasks)
  /\ [][/\ \A t \in (DOMAIN conn'.tasks) \ (DOMAIN conn.tasks) :
             /\ reply'.op = "add" /\ conn'.tasks[t].user_id = reply'.to
             /\ conn'.tasks[t].date = today_str(now)
        /\ \A t \in (DOMAIN conn'.tasks) \cap (DOMAIN conn.tasks) :
             /\ conn'.tasks[t].user_id = conn.tasks[t].user_id
             /\ conn'.tasks[t].date = conn.tasks[t].date
        /\ today_str(now') # today_str(now) =>
             \A u \in Users : list_tasks(conn', u, today_str(now')) = <<>>]_vars

\* on day 1 a user has a task of day 0 and a task of day 1
C12_Witness ==
  /\ today_str(now) = 1
  /\ \E u \in Users, t \in DOMAIN conn.tasks :
       /\ conn.tasks[t].user_id = u /\ conn.tasks[t].date = 0
       /\ ListedIds(u, 1) # {} /\ t \notin ListedIds(u, 1) /\ t \in ListedIds(u, 0)

\* the answers to a command rejected for its arguments
Rejections ==
  {"usage: /add <task>", "usage: /note <text>",
   "usage: /del <task_id>", "usage: /del <task_id> (must be a number)"}

\* C13 as claimed: a command rejected with a validation error leaves users,
\* tasks and notes as they were.
C13_RejectedChangesNothing ==
  [][reply'.msg.kind \in Rejections => conn' = conn]_vars

\* C13 as amended: a command rejected with a validation error leaves tasks, the
\* task id counter and notes as they were, and every other user's record; of
\* the users table only the sender's record may change: it is created if absent,
\* its markers are not changed.
C13_RejectedChangesOnlySender ==
  [][reply'.msg.kind \in Rejections =>
       /\ conn'.tasks = conn.tasks /\ conn'.seq = conn.seq /\ conn'.notes = conn.notes
       /\ DOMAIN conn'.users = (DOMAIN conn.users) \cup {reply'.to}
       /\ \A u \in (DOMAIN conn.users) \ {reply'.to} : conn'.users[u] = conn.users[u]
       /\ \A k \in Kinds :
            Marker(conn'.users[reply'.to], k) =
              IF reply'.to \in DOMAIN conn.users THEN Marker(conn.users[reply'.to], k) ELSE NULL]_vars

\* a /del with a non-numeric id was rejected, the sender having a task and a note
C13_Witness ==
  /\ reply.op = "del" /\ reply.msg.kind = "usage: /del <task_id> (must be a number)"
  /\ list_tasks(conn, reply.to, today_str(now)) # <<>>
  /\ get_note(conn, reply.to, today_str(now)) # NoNote

\* the operations of a user: the commands and the buttons
Interactions == {"add", "today", "del", "reset", "note", "checkin", "t", "summary", "finalize"}

\* C14: a user record is created on the first interaction: after any command
\* (add, today, del, reset, note, checkin) or button (toggle, summary,
\* finalize) of user u has been handled, u is in the users table and so in the
\* due set of the next firing.
C14_UserCreatedOnFirstInteraction ==
  reply.op \in Interactions =>
    /\ reply.to \in DOMAIN conn.users
    /\ \A k \in Kinds : reply.to \in DueSet(conn, k, today_str(now))

\* the database without the tasks of the users other than u
WithoutOthers(db, u) ==
  [db EXCEPT !.tasks = Without(db.tasks, {t \in DOMAIN db.tasks : db.tasks[t].user_id # u})]

\* the answers of /del <id> and of the button t:<id> to user u on database db
DelAnswer(db, u, id) == del_command(db, now, u, PrivateChat(u), <<Num(id)>>).reply
ToggleAnswer(db, u, id) == on_button(db, now, u, ToggleData(id)).reply

\* C15: the answer to a delete or toggle of a task id that is a task of another
\* user, or of another day, is the answer to an id that is no task at all
\* (MaxTasks + 1 is never a row), and the answer to any id is the same with and
\* without the tasks of the other users.
C15_NotFoundAsNotOwned ==
  \A u \in Users, id \in TaskIds :
    /\ DelAnswer(conn, u, id) = DelAnswer(WithoutOthers(conn, u), u, id)
    /\ ToggleAnswer(conn, u, id) = ToggleAnswer(WithoutOthers(conn, u), u, id)
    /\ ~OwnTaskOfToday(u, id) =>
         /\ DelAnswer(conn, u, id) = DelAnswer(conn, u, MaxTasks + 1)
         /\ ToggleAnswer(conn, u, id) = ToggleAnswer(conn, u, MaxTasks + 1)

\* a /del of another user's task of today got the answer of an unknown id
C15_Witness ==
  /\ reply.op = "del" /\ reply.arg \in DOMAIN conn.tasks
  /\ conn.tasks[reply.arg].user_id # reply.to
  /\ conn.tasks[reply.arg].date = today_str(now)
  /\ reply.msg = DelAnswer(conn, reply.to, MaxTasks + 1)
  /\ reply.msg.kind = "that task id is not in today's list"

\* C16: Summary and Finalize are read-only: tasks with their done, notes, user
\* records and markers are unchanged by them; Finalize does not lock the list:
\* after it a toggle of a task of the user is still accepted and flips done.
C16_SummaryFinalizeReadOnly ==
  /\ [][reply'.op \in {"summary", "finalize"} => conn' = conn]_vars
  /\ [](reply.op = "finalize" =>
          \A t \in DOMAIN conn.tasks :
            OwnTaskOfToday(reply.to, t) =>
              /\ ToggleAnswer(conn, reply.to, t).kind = "check-in edited"
              /\ on_button(conn, now, reply.to, ToggleData(t)).db.tasks[t].done
                   = Flip(conn.tasks[t].done))

\* Finalize has answered a user who has a task marked done and a note
C16_Witness ==
  /\ reply.op = "finalize"
  /\ get_note(conn, reply.to, today_str(now)) # NoNote
  /\ \E t \in DOMAIN conn.tasks : OwnTaskOfToday(reply.to, t) /\ conn.tasks[t].done = 1

\* C17: Finalize and Summary of user u report total = the number of u's tasks
\* of today and done = the number of those with done = 1, 0 <= done <= total,
\* and Finalize the tier of (done, total): (1,2) is partial-effort, (2,2) is
\* complete.  A new task has done = 0.
C17_FinalizeCounts ==
  [][/\ \A t \in (DOMAIN conn'.tasks) \ (DOMAIN conn.tasks) : conn'.tasks[t].done = 0
     /\ (reply'.op \in {"summary", "finalize"} /\ now' = now) =>
          LET own == RowsForDay(conn', reply'.to, today_str(now))
              total == Cardinality(own)
              done == Cardinality({t \in own : conn'.tasks[t].done = 1})
              b == reply'.msg.body
          IN /\ 0 <= done /\ done <= total
             /\ reply'.op = "summary" => b = <<done, total>>
             /\ reply'.op = "finalize" =>
                  /\ b[1] = today_str(now) /\ b[2] = done /\ b[3] = total
                  /\ b[4] = feedback_text(done, total)
                  /\ (done = 1 /\ total = 2) => b[4] = MsgPartialEffort
                  /\ (done = 2 /\ total = 2) => b[4] = MsgComplete]_vars

\* Finalize has reported 1 of 2 and the partial-effort tier
C17_Witness ==
  /\ reply.op = "finalize"
  /\ reply.msg.body[2] = 1 /\ reply.msg.body[3] = 2 /\ reply.msg.body[4] = MsgPartialEffort

\* C18: task ids are unique, increase in creation order across all users and
\* are never reused: no id in the table is above the counter of ids assigned,
\* the counter never decreases, and a new task gets an id above the counter,
\* so above every id assigned before, the ids of removed tasks included.
C18_TaskIdsNeverReused ==
  /\ [](\A t \in DOMAIN conn.tasks : 1 <= t /\ t <= conn.seq)
  /\ [][/\ conn'.seq >= conn.seq
        /\ \A t \in (DOMAIN conn'.tasks) \ (DOMAIN conn.tasks) :
             /\ t > conn.seq /\ t = conn'.seq
             /\ \A t0 \in DOMAIN conn.tasks : t0 < t]_vars

\* a task was added after the task with the id before its own was removed
C18_Witness ==
  /\ reply.op = "add" /\ reply.msg.kind = "added"
  /\ conn.seq > 1 /\ conn.seq \in DOMAIN conn.tasks
  /\ (conn.seq - 1) \notin DOMAIN conn.tasks

\* C19: no in-tick retry: in one firing of kind k each user has at most one
\* dispatch attempt, whether it succeeds or fails: the due list names a user
\* once, the loop moves to the next user after every attempt, and no
\* (user, kind, day) has both a failed and a successful dispatch.
C19_NoInTickRetry ==
  /\ [](log.ok \cap log.fail = {})
  /\ [](\A k \in Kinds :
          /\ \A n, m \in 1 .. Len(job[k].due) :
               job[k].due[n].user_id = job[k].due[m].user_id => n = m
          /\ job[k].pc = "sending" =>
               DOMAIN job[k].res = {job[k].due[n].user_id : n \in 1 .. (job[k].i - 1)})
  /\ [][\A k \in Kinds :
          (job[k].pc = "sending" /\ job'[k] # job[k]) =>
            /\ job[k].due[job[k].i].user_id \notin DOMAIN job[k].res
            /\ job'[k].i = job[k].i + 1
            /\ job'[k].due = job[k].due /\ job'[k].d = job[k].d]_vars

\* a firing is over, a user whose dispatch failed in it is still due
C19_Witness ==
  \E k \in Kinds, u \in Users :
    /\ job[k].pc = "done" /\ job[k].d = today_str(now)
    /\ <<u, k, job[k].d>> \in log.fail \ log.ok
    /\ u \in DueSet(conn, k, job[k].d)

\* C20: the marker of (user u, kind k) is changed only by the scheduler's
\* set_last_sent for u and k after a successful dispatch of kind k to u: then
\* no other marker changes; a new user record has both markers absent; a
\* re-registration (chat_id change), /checkin, /reset, /add and the buttons
\* change no marker, so a manual check-in leaves the user due for the scheduled
\* check-in of the day.
C20_MarkerOnlyByScheduler ==
  [][/\ \A u \in Users, k \in Kinds :
          /\ MarkerChanges(u, k) =>
               /\ job[k].pc = "sending" /\ job[k].due[job[k].i].user_id = u
               /\ job'[k] # job[k] /\ <<u, k, job[k].d>> \in log'.ok \ log.ok
               /\ Marker(conn'.users[u], k) = job[k].d
               /\ \A u2 \in DOMAIN conn.users, k2 \in Kinds :
                    <<u2, k2>> # <<u, k>> => ~MarkerChanges(u2, k2)
          /\ u \in DOMAIN conn.users => u \in DOMAIN conn'.users
          /\ (u \notin DOMAIN conn.users /\ u \in DOMAIN conn'.users) =>
               Marker(conn'.users[u], k) = NULL
     /\ reply' # reply =>
          /\ reply'.op = "checkin"
          /\ \A u \in DOMAIN conn.users, k \in Kinds :
               /\ ~MarkerChanges(u, k)
               /\ u \in DueSet(conn, k, today_str(now)) => u \in DueSet(conn', k, today_str(now))]_vars

\* before 23:50 a user marked for the 6 PM reminder of today has started a
\* check-in and is still due for the scheduled check-in, while another user
\* has no marker
C20_Witness ==
  /\ reply.op = "checkin" /\ reply.to \in DOMAIN conn.users
  /\ time_of_day(now) < ReminderSlot("1150")
  /\ Marker(conn.users[reply.to], "6pm") = today_str(now)
  /\ Marker(conn.users[reply.to], "1150") = NULL
  /\ reply.to \in DueSet(conn, "1150", today_str(now))
  /\ \E u2 \in DOMAIN conn.users : u2 # reply.to /\ Marker(conn.users[u2], "6pm") = NULL

====
